---- MODULE Spec2Model ----
(***************************************************************************)
(* Model of the blobstore-s3 capability provider                           *)
(* (crates/provider-blobstore-s3/src/lib.rs): the serve() dispatcher, the  *)
(* fourteen serve_* operation handlers, the per-link client registry       *)
(* (`actors`) and the StorageClient facade.                                *)
(*                                                                         *)
(* The S3 service and the wRPC transport are external: a backend call      *)
(* answers with any of the responses the SDK can produce, an invocation    *)
(* stream yields Some(Ok), Some(Err) or None, and transmit_static either   *)
(* succeeds or fails.                                                      *)
(***************************************************************************)
EXTENDS Integers, Sequences, FiniteSets, TLC

\* ------------------------------------------------------------------ bounds
\* Number of invocations the callers publish in one behaviour.
MaxInv == 2
\* Number of transport failures in one behaviour: error items yielded by the
\* invocation streams and failed transmit_static calls.
MaxErr == 1
\* Number of invocations the callers publish in one behaviour of FairSpec.
LiveInv == 1
\* get-container-data offsets `start` and `end` range over 0..MaxOff.
MaxOff == 1

\* --------------------------------------------------------------- constants
\* The operation kinds, in the order serve() subscribes to them.
KindOrder ==
  << "clear_container", "container_exists", "create_container",
     "delete_container", "get_container_info", "list_container_objects",
     "copy_object", "delete_object", "delete_objects", "get_container_data",
     "get_object_info", "has_object", "move_object", "write_container_data" >>

Kinds == { KindOrder[n] : n \in 1..Len(KindOrder) }

InvIds == 1..MaxInv

\* Source ids the host may link, and the storage configurations it may send.
SourceIds == {"a1"}
Configs == {"c1"}
\* The link values DataSpec sends: a second configuration, and values from
\* which no StorageConfig can be built.
LinkValues == Configs \cup {"c2", "invalid"}
\* StorageConfig::from_values(config_values) is Ok
from_values(cfg) == cfg # "invalid"
NoLink == "none"

\* The caller context of an invocation: a source id, or no context at all.
NoCtx == "absent"
Contexts == SourceIds \cup {NoCtx}

VARIABLES
  pc,        \* position of serve(): "subscribe", "select", "returned_ok", "returned_err"
  shutdown,  \* TRUE once the `commands` future has resolved
  chan,      \* chan[k]: invocations buffered in the stream of operation kind k
  nerr,      \* transport failures logged so far (error!(?err, "failed to ..."))
  actors,    \* the registry: source id -> StorageClient (its configuration) or NoLink
  inv,       \* inv[i]: the invocation i and the handler task spawned for it
  s3,        \* the bucket behind the link: whether it exists, and its objects
  last,      \* the last operation run against the bucket, with its outcome
  lock       \* the RwLock of the registry: its holders and the tasks waiting for it

vars == << pc, shutdown, chan, nerr, actors, inv, s3, last, lock >>

NoOut == [subject |-> "none", variant |-> "none", err |-> "none", val |-> "none"]

\* An invocation no caller has published yet.
Fresh ==
  [ st |-> "new", kind |-> "none", handler |-> "none", ctx |-> "unread",
    lookup |-> "none", client |-> NoLink, calls |-> 0, ntx |-> 0, out |-> NoOut ]

Ok(val) == [variant |-> "ok", err |-> "none", val |-> val]
Err(e) == [variant |-> "err", err |-> e, val |-> "none"]

\* A bucket that does not exist, and the record of no operation yet.  The
\* dispatcher specifications (Spec, FairSpec) abstract the backend to its
\* answers and leave both as they are.
NoBucket == [exists |-> FALSE, objs |-> << >>]
NoOp == [op |-> "none"]

\* RwLock::new: nobody holds the lock or waits for it.  Only the registry
\* specification follows the lock; the others keep it as it is.
Unlocked == [writer |-> 0, readers |-> {}, waiters |-> << >>]


Init ==
  /\ pc = "subscribe"
  /\ shutdown = FALSE
  /\ chan = [k \in Kinds |-> << >>]
  /\ nerr = 0
  /\ actors = [s \in SourceIds |-> NoLink]
  /\ inv = [i \in InvIds |-> Fresh]
  /\ s3 = NoBucket
  /\ last = NoOp
  /\ lock = Unlocked

\* ------------------------------------------------- StorageClient (facade)
\* Each facade method is the mapping from the answer of its one SDK call to
\* the anyhow::Result it returns.

container_exists(resp) ==
  CASE resp = "ok" -> Ok("true")
    [] resp = "notfound" -> Ok("false")
    [] OTHER -> Err("backend")

\* Mutant: only a fresh bucket counts as created.
create_container_Strict(resp) ==
  IF resp = "ok" THEN Ok("unit") ELSE Err("backend")

create_container(resp) ==
  CASE resp = "ok" -> Ok("unit")
    [] resp = "owned" -> Ok("unit")
    [] OTHER -> Err("backend")

get_container_info(resp) ==
  CASE resp = "ok" -> Ok("info")
    [] resp = "notfound" -> Err("notfound")
    [] OTHER -> Err("backend")

list_container_objects(resp) ==
  IF resp = "ok" THEN Ok("names") ELSE Err("backend")

\* Mutant: a failure of the copy is not passed on.
copy_object_Lenient(resp) == Ok("unit")

copy_object(resp) ==
  IF resp = "ok" THEN Ok("unit") ELSE Err("backend")

delete_object(resp) ==
  IF resp = "ok" THEN Ok("unit") ELSE Err("backend")

\* delete_objects on a non-empty key list (the empty list returns before the call)
delete_objects(resp) ==
  CASE resp = "ok" -> Ok("unit")
    [] resp = "partial" -> Err("partial")
    [] OTHER -> Err("backend")

delete_container(resp) ==
  IF resp = "ok" THEN Ok("unit") ELSE Err("backend")

\* Mutant: not-found is reported like any other service error.
has_object_NotFoundIsError(resp) ==
  IF resp = "ok" THEN Ok("true") ELSE Err("backend")

has_object(resp) ==
  CASE resp = "ok" -> Ok("true")
    [] resp = "notfound" -> Ok("false")
    [] OTHER -> Err("backend")

get_object_info(resp) ==
  CASE resp = "ok" -> Ok("info")
    [] resp = "notfound" -> Err("notfound")
    [] OTHER -> Err("backend")

\* s3_client.get_object()...send() in serve_get_container_data
get_object(resp) ==
  IF resp = "ok" THEN Ok("stream") ELSE Err("backend")

\* s3_client.put_object()...send() in serve_write_container_data
put_object(resp) ==
  IF resp = "ok" THEN Ok("unit") ELSE Err("backend")

\* The answers each SDK call can give.
Responses(op) ==
  CASE op \in {"container_exists", "get_container_info", "has_object",
               "get_object_info", "get_object"} -> {"ok", "notfound", "error"}
    [] op = "create_container" -> {"ok", "owned", "error"}
    [] op = "delete_objects" -> {"ok", "partial", "error"}
    [] OTHER -> {"ok", "error"}

Facade(op, resp) ==
  CASE op = "container_exists" -> container_exists(resp)
    [] op = "create_container" -> create_container(resp)
    [] op = "delete_container" -> delete_container(resp)
    [] op = "get_container_info" -> get_container_info(resp)
    [] op = "list_container_objects" -> list_container_objects(resp)
    [] op = "copy_object" -> copy_object(resp)
    [] op = "delete_object" -> delete_object(resp)
    [] op = "delete_objects" -> delete_objects(resp)
    [] op = "get_object_info" -> get_object_info(resp)
    [] op = "has_object" -> has_object(resp)
    [] op = "get_object" -> get_object(resp)
    [] op = "put_object" -> put_object(resp)

\* ------------------------------------------------------ handler building blocks
\* Mutant: an invocation without a registered link gets a default client
\* (the "TODO: Support a default here" done wrongly).
client_Default(c) ==
  IF c \in SourceIds /\ actors[c] # NoLink THEN actors[c] ELSE "c1"

\* BlobstoreS3Provider::client: the registry entry of the context's source id,
\* NoLink (an error) when the context is absent or the id has no entry.
client(c) == IF c \in DOMAIN actors THEN actors[c] ELSE NoLink

\* transmitter.transmit_static(subject, res): one transmission of `res` on
\* `subject`.
Transmit(r, subject, res) ==
  [r EXCEPT !.ntx = @ + 1,
            !.out = [subject |-> subject, variant |-> res.variant,
                     err |-> res.err, val |-> res.val]]

\* transmit_static either succeeds or returns an error, which the handler
\* only logs: `sent` is FALSE in the second case.
Sent == IF nerr < MaxErr THEN BOOLEAN ELSE {TRUE}

Logged(i, sent) ==
  nerr' = IF inv'[i].ntx > inv[i].ntx /\ ~sent THEN nerr + 1 ELSE nerr

\* The handler function returns.
Returned(r) == [r EXCEPT !.st = "done"]

\* The caller context of an invocation is fixed when it is published; the
\* model draws it when the handler first looks at the invocation.
CtxOf(r) == IF r.ctx = "unread" THEN Contexts ELSE {r.ctx}

\* Mutant: the lookup error is sent on the error subject.
Lookup_ErrorSubject(r) ==
  IF client(r.ctx) = NoLink
    THEN Returned(Transmit([r EXCEPT !.lookup = "failed"], "error",
                           Err("unknown_link")))
    ELSE [r EXCEPT !.lookup = "found", !.client = client(r.ctx), !.st = "resolved"]

\* Mutant: a failed lookup makes the handler return without transmitting.
Lookup_Silent(r) ==
  IF client(r.ctx) = NoLink
    THEN Returned([r EXCEPT !.lookup = "failed"])
    ELSE [r EXCEPT !.lookup = "found", !.client = client(r.ctx), !.st = "resolved"]

\* `let client = self.client(context.as_ref()).await?;` and, when it fails,
\* the transmission of that error as the handler's result.
Lookup(r) ==
  IF client(r.ctx) = NoLink
    THEN Returned(Transmit([r EXCEPT !.lookup = "failed"], "result",
                           Err("unknown_link")))
    ELSE [r EXCEPT !.lookup = "found", !.client = client(r.ctx), !.st = "resolved"]

Resolve(i) ==
  \E c \in CtxOf(inv[i]), sent \in Sent :
    /\ inv' = [inv EXCEPT ![i] = Lookup([@ EXCEPT !.ctx = c])]
    /\ Logged(i, sent)

\* One facade call whose result is transmitted as the handler's result.
Call(i, op) ==
  \E resp \in Responses(op), sent \in Sent :
    /\ inv' = [inv EXCEPT ![i] =
                 Returned(Transmit([@ EXCEPT !.calls = @ + 1], "result",
                                   Facade(op, resp)))]
    /\ Logged(i, sent)

\* Handler task i runs the handler function of kind k.
Runs(i, k) ==
  /\ inv[i].handler = k
  /\ UNCHANGED << shutdown, chan, actors, s3, last, lock >>

\* Mutant: serve() awaits the handler and propagates its failure with `?`.
Detached_Joined(i) ==
  pc' = IF inv'[i].st = "done" /\ inv'[i].out.variant = "err"
          THEN "returned_err" ELSE pc

\* spawn(async move { provider.serve_*(invocation).await }): the task is
\* detached and its output dropped, so no step of it moves serve().
Detached(i) == pc' = pc

\* ------------------------------------------------------------ the handlers
serve_clear_container(i) ==
  /\ Runs(i, "clear_container")
  /\ \/ inv[i].st = "start" /\ Resolve(i)
     \/ /\ inv[i].st = "resolved"
        /\ \E resp \in Responses("list_container_objects"),
              empty \in BOOLEAN, sent \in Sent :
             LET r == [inv[i] EXCEPT !.calls = @ + 1]
                 listed == list_container_objects(resp)
             IN  /\ inv' = [inv EXCEPT ![i] =
                      IF listed.variant = "err"
                        THEN Returned(Transmit(r, "result", listed))
                      ELSE IF empty
                        THEN Returned(Transmit(r, "result", Ok("unit")))
                      ELSE [r EXCEPT !.st = "listed"]]
                 /\ Logged(i, sent)
     \/ inv[i].st = "listed" /\ Call(i, "delete_objects")
  /\ Detached(i)

serve_container_exists(i) ==
  /\ Runs(i, "container_exists")
  /\ \/ inv[i].st = "start" /\ Resolve(i)
     \/ inv[i].st = "resolved" /\ Call(i, "container_exists")
  /\ Detached(i)

serve_create_container(i) ==
  /\ Runs(i, "create_container")
  /\ \/ inv[i].st = "start" /\ Resolve(i)
     \/ inv[i].st = "resolved" /\ Call(i, "create_container")
  /\ Detached(i)

serve_delete_container(i) ==
  /\ Runs(i, "delete_container")
  /\ \/ inv[i].st = "start" /\ Resolve(i)
     \/ inv[i].st = "resolved" /\ Call(i, "delete_container")
  /\ Detached(i)

serve_get_container_info(i) ==
  /\ Runs(i, "get_container_info")
  /\ \/ inv[i].st = "start" /\ Resolve(i)
     \/ inv[i].st = "resolved" /\ Call(i, "get_container_info")
  /\ Detached(i)

serve_list_container_objects(i) ==
  /\ Runs(i, "list_container_objects")
  /\ \/ inv[i].st = "start" /\ Resolve(i)
     \/ inv[i].st = "resolved" /\ Call(i, "list_container_objects")
  /\ Detached(i)

serve_copy_object(i) ==
  /\ Runs(i, "copy_object")
  /\ \/ inv[i].st = "start" /\ Resolve(i)
     \/ inv[i].st = "resolved" /\ Call(i, "copy_object")
  /\ Detached(i)

serve_delete_object(i) ==
  /\ Runs(i, "delete_object")
  /\ \/ inv[i].st = "start" /\ Resolve(i)
     \/ inv[i].st = "resolved" /\ Call(i, "delete_object")
  /\ Detached(i)

serve_delete_objects(i) ==
  /\ Runs(i, "delete_objects")
  /\ \/ inv[i].st = "start" /\ Resolve(i)
     \/ /\ inv[i].st = "resolved"
        /\ \/ \E sent \in Sent :  \* empty key list: no backend call
                /\ inv' = [inv EXCEPT ![i] =
                             Returned(Transmit(@, "result", Ok("unit")))]
                /\ Logged(i, sent)
           \/ Call(i, "delete_objects")
  /\ Detached(i)

\* u64::checked_sub: -1 stands for None
checked_sub(a, b) == IF a >= b THEN a - b ELSE -1

serve_get_container_data(i) ==
  /\ Runs(i, "get_container_data")
  /\ \/ /\ inv[i].st = "start"
        /\ \E start \in 0..MaxOff, end \in 0..MaxOff,
              c \in CtxOf(inv[i]), sent \in Sent :
             LET r == [inv[i] EXCEPT !.ctx = c]
             IN  /\ inv' = [inv EXCEPT ![i] =
                      IF checked_sub(end, start) = -1
                        THEN Returned(Transmit(r, "result", Err("range")))
                        ELSE Lookup(r)]
                 /\ Logged(i, sent)
     \/ inv[i].st = "resolved" /\ Call(i, "get_object")
  /\ Detached(i)

serve_get_object_info(i) ==
  /\ Runs(i, "get_object_info")
  /\ \/ inv[i].st = "start" /\ Resolve(i)
     \/ inv[i].st = "resolved" /\ Call(i, "get_object_info")
  /\ Detached(i)

serve_has_object(i) ==
  /\ Runs(i, "has_object")
  /\ \/ inv[i].st = "start" /\ Resolve(i)
     \/ inv[i].st = "resolved" /\ Call(i, "has_object")
  /\ Detached(i)

serve_move_object(i) ==
  /\ Runs(i, "move_object")
  /\ \/ inv[i].st = "start" /\ Resolve(i)
     \/ /\ inv[i].st = "resolved"
        /\ \E resp \in Responses("copy_object"), sent \in Sent :
             LET r == [inv[i] EXCEPT !.calls = @ + 1]
                 copied == copy_object(resp)
             IN  /\ inv' = [inv EXCEPT ![i] =
                      IF copied.variant = "err"
                        THEN Returned(Transmit(r, "result", copied))
                        ELSE [r EXCEPT !.st = "copied"]]
                 /\ Logged(i, sent)
     \/ inv[i].st = "copied" /\ Call(i, "delete_object")
  /\ Detached(i)

\* Mutant: the `return` after the buffering error is missing, so the handler
\* goes on to the lookup and the put_object call.
AfterStreamError_Fallthrough == "buffered"

\* Mutant: after the buffering error the handler starts over and reads the
\* stream again.
AfterStreamError_Retry == "start"

\* Where serve_write_container_data goes after it has transmitted the
\* buffering error: `return`.
AfterStreamError == "done"

serve_write_container_data(i) ==
  /\ Runs(i, "write_container_data")
  /\ \/ /\ inv[i].st = "start"
        /\ \E collected \in BOOLEAN, c \in CtxOf(inv[i]), sent \in Sent :
             LET r == [inv[i] EXCEPT !.ctx = c]
             IN  /\ inv' = [inv EXCEPT ![i] =
                      IF collected
                        THEN [r EXCEPT !.st = "buffered"]
                        ELSE [Transmit(r, "error", Err("stream"))
                                EXCEPT !.st = AfterStreamError]]
                 /\ Logged(i, sent)
     \/ inv[i].st = "buffered" /\ Resolve(i)
     \/ inv[i].st = "resolved" /\ Call(i, "put_object")
  /\ Detached(i)

Handler(i) ==
  \/ serve_clear_container(i)
  \/ serve_container_exists(i)
  \/ serve_create_container(i)
  \/ serve_delete_container(i)
  \/ serve_get_container_info(i)
  \/ serve_list_container_objects(i)
  \/ serve_copy_object(i)
  \/ serve_delete_object(i)
  \/ serve_delete_objects(i)
  \/ serve_get_container_data(i)
  \/ serve_get_object_info(i)
  \/ serve_has_object(i)
  \/ serve_move_object(i)
  \/ serve_write_container_data(i)

\* ------------------------------------------------------------------ serve()
\* The fourteen streams are locals of the 'outer loop body: leaving the body
\* (continue 'outer, return) drops them with whatever they have buffered.
DropStreams ==
  /\ chan' = [k \in Kinds |-> << >>]
  /\ inv' = [i \in InvIds |->
               IF inv[i].st = "queued" THEN [inv[i] EXCEPT !.st = "dropped"]
                                       ELSE inv[i]]

\* wrpc.serve_*().await.context(..)? fourteen times: all succeed
Subscribe ==
  /\ pc = "subscribe"
  /\ pc' = "select"
  /\ UNCHANGED << shutdown, chan, nerr, actors, inv, s3, last, lock >>

\* Mutant: the failure is swallowed and serve() enters the loop.
SubscribeFail_Ignored(k) ==
  /\ pc = "subscribe"
  /\ pc' = "select"
  /\ UNCHANGED << shutdown, chan, nerr, actors, inv, s3, last, lock >>

\* ... or the one for kind k fails and `?` returns the error
SubscribeFail(k) ==
  /\ pc = "subscribe"
  /\ pc' = "returned_err"
  /\ UNCHANGED << shutdown, chan, nerr, actors, inv, s3, last, lock >>

\* Mutant: every branch spawns the handler of the first kind.
Spawned_First(k) == KindOrder[1]

\* The handler function the select! branch of kind k spawns.
Spawned(k) == k

\* Mutant: the branch awaits the handler instead of spawning it, so nothing
\* is accepted while a handler is in flight.
Accept_Inline(k) ==
  /\ pc = "select"
  /\ chan[k] # << >>
  /\ \A i \in InvIds : inv[i].st \notin {"start", "buffered", "resolved", "listed", "copied"}
  /\ chan' = [chan EXCEPT ![k] = Tail(@)]
  /\ inv' = [inv EXCEPT ![Head(chan[k])] =
               [@ EXCEPT !.st = "start", !.handler = Spawned(k)]]
  /\ UNCHANGED << pc, shutdown, nerr, actors, s3, last, lock >>

\* select! branch of kind k, Some(Ok(invocation)): spawn the handler
Accept(k) ==
  /\ pc = "select"
  /\ chan[k] # << >>
  /\ chan' = [chan EXCEPT ![k] = Tail(@)]
  /\ inv' = [inv EXCEPT ![Head(chan[k])] =
               [@ EXCEPT !.st = "start", !.handler = Spawned(k)]]
  /\ UNCHANGED << pc, shutdown, nerr, actors, s3, last, lock >>

\* Mutant: an error item is treated like the end of the stream.
AcceptError_Resubscribe(k) ==
  /\ pc = "select"
  /\ nerr < MaxErr
  /\ nerr' = nerr + 1
  /\ pc' = "subscribe"
  /\ DropStreams
  /\ UNCHANGED << shutdown, actors, s3, last, lock >>

\* select! branch of kind k, Some(Err(err)): log it
AcceptError(k) ==
  /\ pc = "select"
  /\ nerr < MaxErr
  /\ nerr' = nerr + 1
  /\ UNCHANGED << pc, shutdown, chan, actors, inv, s3, last, lock >>

\* Mutant: only the stream that ended is subscribed again, the others and
\* what they have buffered are kept, and the loop goes on.
Resubscribe_OnlyExhausted(k) ==
  /\ pc = "select"
  /\ chan[k] = << >>
  /\ UNCHANGED << pc, shutdown, chan, nerr, actors, inv, s3, last, lock >>

\* select! branch of kind k, None: continue 'outer
Resubscribe(k) ==
  /\ pc = "select"
  /\ chan[k] = << >>
  /\ pc' = "subscribe"
  /\ DropStreams
  /\ UNCHANGED << shutdown, nerr, actors, s3, last, lock >>

\* Mutant: the branch leaves only the inner loop (`break`), so serve()
\* subscribes again instead of returning.
ShutdownReturn_Break ==
  /\ pc = "select"
  /\ shutdown
  /\ pc' = "subscribe"
  /\ DropStreams
  /\ UNCHANGED << shutdown, nerr, actors, s3, last, lock >>

\* Mutant: the branch first waits for the handlers in flight.
ShutdownReturn_Drain ==
  /\ pc = "select"
  /\ shutdown
  /\ \A i \in InvIds : inv[i].st \notin {"start", "buffered", "resolved", "listed", "copied"}
  /\ pc' = "returned_ok"
  /\ DropStreams
  /\ UNCHANGED << shutdown, nerr, actors, s3, last, lock >>

\* select! branch `_ = &mut commands`: return Ok(())
ShutdownReturn ==
  /\ pc = "select"
  /\ shutdown
  /\ pc' = "returned_ok"
  /\ DropStreams
  /\ UNCHANGED << shutdown, nerr, actors, s3, last, lock >>

\* ------------------------------------------------------- ProviderHandler
\* Mutant: a link is stored only for a source id that has none.
receive_link_config_as_target_KeepFirst(s, cfg) ==
  /\ actors' = IF from_values(cfg) /\ actors[s] = NoLink
                 THEN [actors EXCEPT ![s] = cfg] ELSE actors
  /\ UNCHANGED << pc, shutdown, chan, nerr, inv, s3, last, lock >>

\* Build the StorageConfig (an error leaves the registry alone), build the
\* StorageClient from it and insert it under the source id.
receive_link_config_as_target(s, cfg) ==
  /\ actors' = IF from_values(cfg) THEN [actors EXCEPT ![s] = cfg] ELSE actors
  /\ UNCHANGED << pc, shutdown, chan, nerr, inv, s3, last, lock >>

\* Mutant: the removal waits until no handler of that source id is at work
\* with the link it looked up.
delete_link_Waits(s) ==
  /\ \A i \in InvIds :
       ~ (inv[i].ctx = s /\ inv[i].lookup = "found" /\ inv[i].st # "done")
  /\ actors' = [actors EXCEPT ![s] = NoLink]
  /\ UNCHANGED << pc, shutdown, chan, nerr, inv, s3, last, lock >>

\* delete_link: aw.remove(source_id)
delete_link(s) ==
  /\ actors' = [actors EXCEPT ![s] = NoLink]
  /\ UNCHANGED << pc, shutdown, chan, nerr, inv, s3, last, lock >>

\* ProviderHandler::shutdown: drain the registry
shutdown_links ==
  /\ actors' = [s \in SourceIds |-> NoLink]
  /\ UNCHANGED << pc, shutdown, chan, nerr, inv, s3, last, lock >>

\* ------------------------------------------------------------- environment
\* A caller publishes the next invocation on the subject of kind k; the
\* subscription of serve() buffers it.
Deliver(k) ==
  /\ pc = "select"
  /\ \E i \in InvIds :
       /\ inv[i].st = "new"
       /\ \A j \in InvIds : j < i => inv[j].st # "new"
       /\ inv' = [inv EXCEPT ![i] = [@ EXCEPT !.st = "queued", !.kind = k]]
       /\ chan' = [chan EXCEPT ![k] = Append(@, i)]
  /\ UNCHANGED << pc, shutdown, nerr, actors, s3, last, lock >>

\* The `commands` future resolves.
ShutdownSignal ==
  /\ ~shutdown
  /\ shutdown' = TRUE
  /\ UNCHANGED << pc, chan, nerr, actors, inv, s3, last, lock >>

Next ==
  \/ Subscribe
  \/ \E k \in Kinds : SubscribeFail(k)
  \/ \E k \in Kinds : Accept(k)
  \/ \E k \in Kinds : AcceptError(k)
  \/ \E k \in Kinds : Resubscribe(k)
  \/ ShutdownReturn
  \/ \E i \in InvIds : Handler(i)
  \/ \E s \in SourceIds, cfg \in Configs : receive_link_config_as_target(s, cfg)
  \/ \E s \in SourceIds : delete_link(s)
  \/ shutdown_links
  \/ \E k \in Kinds : Deliver(k)
  \/ ShutdownSignal

Spec == Init /\ [][Next]_vars

\* ---------------------------------------------------------------- fairness
\* The stages in which a spawned handler task has not yet returned.
Running == {"start", "buffered", "resolved", "listed", "copied"}

\* An invocation no caller publishes in this behaviour.
Withheld == [Fresh EXCEPT !.st = "withheld"]

InitFair ==
  /\ pc = "subscribe"
  /\ shutdown = FALSE
  /\ chan = [k \in Kinds |-> << >>]
  /\ nerr = 0
  /\ actors = [s \in SourceIds |-> NoLink]
  /\ inv = [i \in InvIds |-> IF i <= LiveInv THEN Fresh ELSE Withheld]
  /\ s3 = NoBucket
  /\ last = NoOp
  /\ lock = Unlocked

\* tokio::spawn: every spawned handler task keeps being polled until it
\* returns, whatever serve() does meanwhile; its awaits (registry lock,
\* backend call, inbound stream, transmit) all complete.
HandlersRun == \A i \in InvIds : WF_vars(Handler(i))

\* select! polls its ready branches in random order, so a branch that is ready
\* again and again is taken; the awaits of the subscription phase complete.
ServeRuns ==
  /\ SF_vars(ShutdownReturn)
  /\ WF_vars(Subscribe \/ \E k \in Kinds : SubscribeFail(k))

FairSpec == InitFair /\ [][Next]_vars /\ HandlersRun /\ ServeRuns

\* ------------------------------------------------------------- the bucket
\* DataSpec runs the operations one at a time against one bucket whose
\* contents are tracked, so that what an operation returns and what it leaves
\* in the bucket can be compared.

\* Object keys are 1..MaxKeys, in the order in which the backend lists them.
MaxKeys == 2
\* The most keys one list_objects_v2 answer carries (1000 for S3).
PageLimit == 1

Keys == 1..MaxKeys
Octets == {0, 1}
\* Object contents: byte strings of length 0..MaxOff.
Blobs == UNION { [1..n -> Octets] : n \in 0..MaxOff }

\* Option<T>: None is the empty sequence, Some(x) the sequence of x alone.
None == << >>
Some(x) == << x >>
Option(S) == {None} \cup { Some(x) : x \in S }
unwrap_or(o, d) == IF o = None THEN d ELSE o[1]

Min(a, b) == IF a <= b THEN a ELSE b

\* Iterator::skip and Iterator::take on a sequence.
skip(q, n) == SubSeq(q, Min(n, Len(q)) + 1, Len(q))
take(q, n) == SubSeq(q, 1, Min(n, Len(q)))

\* The keys of K in listing order.
InOrder(K) ==
  CHOOSE q \in [1..Cardinality(K) -> K] :
    \A a, b \in 1..Cardinality(K) : a < b => q[a] < q[b]

\* The bucket b without the keys in K.
Without(b, K) ==
  [b EXCEPT !.objs = [k \in (DOMAIN b.objs) \ K |-> b.objs[k]]]

\* The bucket b with `data` stored under key k.
With(b, k, data) ==
  [b EXCEPT !.objs = [j \in (DOMAIN b.objs) \cup {k} |->
                        IF j = k THEN data ELSE b.objs[j]]]

\* How the service treats one call: it answers normally, or it fails (for
\* delete_objects it may also answer with per-key errors).
Service == {"up", "down"}

\* The S3 calls.  Each gives the answer (`resp`), the payload of a successful
\* answer (`body`) and the bucket after the call (`s3`).
S3_head_bucket(b, svc) ==
  [resp |-> IF svc # "up" THEN "error" ELSE IF b.exists THEN "ok" ELSE "notfound",
   body |-> None, s3 |-> b]

S3_create_bucket(b, svc) ==
  IF svc # "up" THEN [resp |-> "error", body |-> None, s3 |-> b]
  ELSE IF b.exists THEN [resp |-> "owned", body |-> None, s3 |-> b]
  ELSE [resp |-> "ok", body |-> None, s3 |-> [b EXCEPT !.exists = TRUE]]

S3_delete_bucket(b, svc) ==
  IF svc = "up" /\ b.exists /\ DOMAIN b.objs = {}
    THEN [resp |-> "ok", body |-> None, s3 |-> NoBucket]
    ELSE [resp |-> "error", body |-> None, s3 |-> b]

\* One page: the first keys in order, at most max_keys and at most PageLimit.
S3_list_objects_v2(b, max_keys, svc) ==
  IF svc = "up" /\ b.exists
    THEN [resp |-> "ok",
          body |-> take(InOrder(DOMAIN b.objs),
                        Min(unwrap_or(max_keys, PageLimit), PageLimit)),
          s3 |-> b]
    ELSE [resp |-> "error", body |-> None, s3 |-> b]

S3_head_object(b, k, svc) ==
  [resp |-> IF svc # "up" THEN "error"
            ELSE IF k \in DOMAIN b.objs THEN "ok" ELSE "notfound",
   body |-> None, s3 |-> b]

\* Range: bytes=start-end, both ends inclusive; a range that starts at or
\* after the end of the object cannot be satisfied.
S3_get_object(b, k, start, end, svc) ==
  IF svc # "up" THEN [resp |-> "error", body |-> None, s3 |-> b]
  ELSE IF k \notin DOMAIN b.objs THEN [resp |-> "notfound", body |-> None, s3 |-> b]
  ELSE IF start >= Len(b.objs[k]) THEN [resp |-> "error", body |-> None, s3 |-> b]
  ELSE [resp |-> "ok",
        body |-> SubSeq(b.objs[k], start + 1, Min(end, Len(b.objs[k]) - 1) + 1),
        s3 |-> b]

S3_put_object(b, k, data, svc) ==
  IF svc = "up" /\ b.exists
    THEN [resp |-> "ok", body |-> None, s3 |-> With(b, k, data)]
    ELSE [resp |-> "error", body |-> None, s3 |-> b]

\* A copy of an object onto itself is rejected.
S3_copy_object(b, src, dest, svc) ==
  IF svc = "up" /\ src \in DOMAIN b.objs /\ src # dest
    THEN [resp |-> "ok", body |-> None, s3 |-> With(b, dest, b.objs[src])]
    ELSE [resp |-> "error", body |-> None, s3 |-> b]

S3_delete_object(b, k, svc) ==
  IF svc = "up" /\ b.exists
    THEN [resp |-> "ok", body |-> None, s3 |-> Without(b, {k})]
    ELSE [resp |-> "error", body |-> None, s3 |-> b]

\* "partial": the first key of the request is reported in `errors` and kept,
\* the others are deleted.
S3_delete_objects(b, ks, svc) ==
  IF svc = "down" \/ ~b.exists THEN [resp |-> "error", body |-> None, s3 |-> b]
  ELSE IF svc = "partial"
    THEN [resp |-> "partial", body |-> None,
          s3 |-> Without(b, { ks[n] : n \in 2..Len(ks) })]
  ELSE [resp |-> "ok", body |-> None,
        s3 |-> Without(b, { ks[n] : n \in 1..Len(ks) })]

\* ------------------------------------------- the operations on the bucket
\* The body of each handler (the async block whose value it transmits), run
\* in one step: context ctx, the operation's parameters, and how the service
\* treats each backend call the body makes.

\* The body is over: its result, the backend calls it made, the bucket after.
Outcome(op, ctx, args, svcs, calls, res, b) ==
  /\ last' = [op |-> op, ctx |-> ctx, link |-> client(ctx), args |-> args,
              svc |-> svcs, calls |-> calls, res |-> res]
  /\ s3' = b
  /\ UNCHANGED << pc, shutdown, chan, nerr, actors, inv, lock >>

\* A body that looks the client up and makes one backend call whose answer
\* `r` the facade method `op` maps to the result.
OneCall(op, ctx, args, svc, r) ==
  IF client(ctx) = NoLink
    THEN Outcome(op, ctx, args, << svc >>, 0, Err("unknown_link"), s3)
    ELSE Outcome(op, ctx, args, << svc >>, 1, Facade(op, r.resp), r.s3)

\* The Ok arm of StorageClient::list_container_objects: the keys of the answer
\* with `offset` of them skipped and then `limit` of them taken.
listed_names(contents, limit, offset) ==
  take(skip(contents, unwrap_or(offset, 0)),
       unwrap_or(limit, Len(contents)))

\* StorageClient::list_container_objects against the bucket.
list_names(b, limit, offset, svc) ==
  LET r == S3_list_objects_v2(b, limit, svc)
  IN  IF r.resp = "ok" THEN Ok(listed_names(r.body, limit, offset))
                       ELSE list_container_objects(r.resp)

\* Mutant: the early return on an empty key list is missing, and the service
\* rejects a delete request without keys.
delete_keys_NoEarlyReturn(b, ks, svc) ==
  LET r == S3_delete_objects(b, ks, IF ks = << >> THEN "down" ELSE svc)
  IN  [res |-> delete_objects(r.resp), calls |-> 1, s3 |-> r.s3]

\* StorageClient::delete_objects against the bucket: nothing to delete is a
\* success without a call.
delete_keys(b, ks, svc) ==
  IF ks = << >>
    THEN [res |-> Ok("unit"), calls |-> 0, s3 |-> b]
    ELSE LET r == S3_delete_objects(b, ks, svc)
         IN  [res |-> delete_objects(r.resp), calls |-> 1, s3 |-> r.s3]

do_clear_container ==
  \E ctx \in Contexts, s1 \in Service, s2 \in Service \cup {"partial"} :
    LET names == list_names(s3, None, None, s1)
        d == delete_keys(s3, names.val, s2)
    IN  IF client(ctx) = NoLink
          THEN Outcome("clear_container", ctx, << >>, << s1, s2 >>, 0,
                       Err("unknown_link"), s3)
        ELSE IF names.variant = "err"
          THEN Outcome("clear_container", ctx, << >>, << s1, s2 >>, 1, names, s3)
        ELSE Outcome("clear_container", ctx, << >>, << s1, s2 >>,
                     1 + d.calls, d.res, d.s3)

do_container_exists ==
  \E ctx \in Contexts, svc \in Service :
    OneCall("container_exists", ctx, << >>, svc, S3_head_bucket(s3, svc))

do_create_container ==
  \E ctx \in Contexts, svc \in Service :
    OneCall("create_container", ctx, << >>, svc, S3_create_bucket(s3, svc))

do_delete_container ==
  \E ctx \in Contexts, svc \in Service :
    OneCall("delete_container", ctx, << >>, svc, S3_delete_bucket(s3, svc))

do_get_container_info ==
  \E ctx \in Contexts, svc \in Service :
    OneCall("get_container_info", ctx, << >>, svc, S3_head_bucket(s3, svc))

do_list_container_objects ==
  \E ctx \in Contexts, limit \in Option(0..MaxKeys), offset \in Option(0..MaxKeys),
     svc \in Service :
    IF client(ctx) = NoLink
      THEN Outcome("list_container_objects", ctx, << limit, offset >>, << svc >>,
                   0, Err("unknown_link"), s3)
      ELSE Outcome("list_container_objects", ctx, << limit, offset >>, << svc >>,
                   1, list_names(s3, limit, offset, svc), s3)

do_copy_object ==
  \E ctx \in Contexts, src \in Keys, dest \in Keys, svc \in Service :
    OneCall("copy_object", ctx, << src, dest >>, svc,
            S3_copy_object(s3, src, dest, svc))

do_delete_object ==
  \E ctx \in Contexts, k \in Keys, svc \in Service :
    OneCall("delete_object", ctx, << k >>, svc, S3_delete_object(s3, k, svc))

do_delete_objects ==
  \E ctx \in Contexts, K \in SUBSET Keys, svc \in Service \cup {"partial"} :
    LET d == delete_keys(s3, InOrder(K), svc)
    IN  IF client(ctx) = NoLink
          THEN Outcome("delete_objects", ctx, << InOrder(K) >>, << svc >>, 0,
                       Err("unknown_link"), s3)
          ELSE Outcome("delete_objects", ctx, << InOrder(K) >>, << svc >>,
                       d.calls, d.res, d.s3)

\* Mutant: the body is passed on as the backend sent it.
get_container_data_NoTake(ctx, k, start, end, svc) ==
  LET limit == checked_sub(end, start)
      r == S3_get_object(s3, k, start, end, svc)
  IN  IF limit = -1
        THEN Outcome("get_container_data", ctx, << k, start, end >>, << svc >>,
                     0, Err("range"), s3)
      ELSE IF client(ctx) = NoLink
        THEN Outcome("get_container_data", ctx, << k, start, end >>, << svc >>,
                     0, Err("unknown_link"), s3)
      ELSE Outcome("get_container_data", ctx, << k, start, end >>, << svc >>, 1,
                   IF r.resp = "ok" THEN Ok(r.body)
                                    ELSE get_object(r.resp),
                   s3)

\* The body of serve_get_container_data for one invocation.
get_container_data(ctx, k, start, end, svc) ==
  LET limit == checked_sub(end, start)
      r == S3_get_object(s3, k, start, end, svc)
  IN  IF limit = -1
        THEN Outcome("get_container_data", ctx, << k, start, end >>, << svc >>,
                     0, Err("range"), s3)
      ELSE IF client(ctx) = NoLink
        THEN Outcome("get_container_data", ctx, << k, start, end >>, << svc >>,
                     0, Err("unknown_link"), s3)
      ELSE Outcome("get_container_data", ctx, << k, start, end >>, << svc >>, 1,
                   IF r.resp = "ok" THEN Ok(take(r.body, limit))
                                    ELSE get_object(r.resp),
                   s3)

do_get_container_data ==
  \E ctx \in Contexts, k \in Keys, start \in 0..MaxOff, end \in 0..MaxOff,
     svc \in Service :
    get_container_data(ctx, k, start, end, svc)

do_get_object_info ==
  \E ctx \in Contexts, k \in Keys, svc \in Service :
    OneCall("get_object_info", ctx, << k >>, svc, S3_head_object(s3, k, svc))

do_has_object ==
  \E ctx \in Contexts, k \in Keys, svc \in Service :
    OneCall("has_object", ctx, << k >>, svc, S3_head_object(s3, k, svc))

\* Mutant: when the delete of the source fails, the copy is undone.
do_move_object_Rollback ==
  \E ctx \in Contexts, src \in Keys, dest \in Keys, s1 \in Service, s2 \in Service :
    LET c == S3_copy_object(s3, src, dest, s1)
        d == S3_delete_object(c.s3, src, s2)
    IN  IF client(ctx) = NoLink
          THEN Outcome("move_object", ctx, << src, dest >>, << s1, s2 >>, 0,
                       Err("unknown_link"), s3)
        ELSE IF copy_object(c.resp).variant = "err"
          THEN Outcome("move_object", ctx, << src, dest >>, << s1, s2 >>, 1,
                       copy_object(c.resp), c.s3)
        ELSE Outcome("move_object", ctx, << src, dest >>, << s1, s2 >>, 2,
                     delete_object(d.resp),
                     IF d.resp = "ok" THEN d.s3 ELSE Without(d.s3, {dest}))

do_move_object ==
  \E ctx \in Contexts, src \in Keys, dest \in Keys, s1 \in Service, s2 \in Service :
    LET c == S3_copy_object(s3, src, dest, s1)
        d == S3_delete_object(c.s3, src, s2)
    IN  IF client(ctx) = NoLink
          THEN Outcome("move_object", ctx, << src, dest >>, << s1, s2 >>, 0,
                       Err("unknown_link"), s3)
        ELSE IF copy_object(c.resp).variant = "err"
          THEN Outcome("move_object", ctx, << src, dest >>, << s1, s2 >>, 1,
                       copy_object(c.resp), c.s3)
        ELSE Outcome("move_object", ctx, << src, dest >>, << s1, s2 >>, 2,
                     delete_object(d.resp), d.s3)

do_write_container_data ==
  \E ctx \in Contexts, k \in Keys, data \in Blobs, collected \in BOOLEAN,
     svc \in Service :
    IF ~collected
      THEN Outcome("write_container_data", ctx, << k, data >>, << svc >>, 0,
                   Err("stream"), s3)
    ELSE IF client(ctx) = NoLink
      THEN Outcome("write_container_data", ctx, << k, data >>, << svc >>, 0,
                   Err("unknown_link"), s3)
    ELSE LET r == S3_put_object(s3, k, data, svc)
         IN  Outcome("write_container_data", ctx, << k, data >>, << svc >>, 1,
                     put_object(r.resp), r.s3)

\* No dispatcher: the registry, the bucket and the operations alone.
DataInit ==
  /\ pc = "select"
  /\ shutdown = FALSE
  /\ chan = [k \in Kinds |-> << >>]
  /\ nerr = 0
  /\ actors = [s \in SourceIds |-> NoLink]
  /\ inv = [i \in InvIds |-> Withheld]
  /\ s3 = NoBucket
  /\ last = NoOp
  /\ lock = Unlocked

DataNext ==
  \/ \E s \in SourceIds, cfg \in LinkValues : receive_link_config_as_target(s, cfg)
  \/ \E s \in SourceIds : delete_link(s)
  \/ shutdown_links
  \/ do_clear_container
  \/ do_container_exists
  \/ do_create_container
  \/ do_delete_container
  \/ do_get_container_info
  \/ do_list_container_objects
  \/ do_copy_object
  \/ do_delete_object
  \/ do_delete_objects
  \/ do_get_container_data
  \/ do_get_object_info
  \/ do_has_object
  \/ do_move_object
  \/ do_write_container_data

DataSpec == DataInit /\ [][DataNext]_vars

\* ------------------------------------------------------------ the aliases
\* A bucket name is a sequence of symbols: the symbol ALIAS_PREFIX stands for
\* the text "alias_", and a letter for text that does not contain it.  The
\* empty sequence is the empty name.

MaxName == 2

ALIAS_PREFIX == "alias_"

Letters == {"x"}

Symbols == {ALIAS_PREFIX} \cup Letters

AliasNames == UNION { [1..n -> Symbols] : n \in 0..MaxName }

\* str::strip_prefix: the rest of the name behind the prefix, when it has it.
strip_prefix(name, prefix) ==
  IF Len(name) > 0 /\ name[1] = prefix THEN Some(Tail(name)) ELSE None

is_empty(name) == Len(name) = 0

\* HashMap::get
get_OrDefault(map, k) == Some(IF k \in DOMAIN map THEN map[k] ELSE << >>)

get(map, k) == IF k \in DOMAIN map THEN Some(map[k]) ELSE None

\* HashMap::insert
insert(map, k, v) ==
  [x \in DOMAIN map \cup {k} |-> IF x = k THEN v ELSE map[x]]

\* The maps with at most one entry that a link's configuration is drawn from:
\* StorageConfig.aliases and the link's configuration values.
ConfigMaps ==
  {<< >>} \cup
  UNION { { [x \in {k} |-> v] : v \in AliasNames } : k \in AliasNames }

\* Mutant: every key with the prefix is inserted, empty or not.
AliasKeys_NoSkip(config_values) ==
  { k \in DOMAIN config_values : strip_prefix(k, ALIAS_PREFIX) # None }

\* The alias keys of the configuration values that the loop inserts.
AliasKeys(config_values) ==
  { k \in DOMAIN config_values :
      /\ strip_prefix(k, ALIAS_PREFIX) # None
      /\ ~ is_empty(unwrap_or(strip_prefix(k, ALIAS_PREFIX), k))
      /\ ~ is_empty(config_values[k]) }

\* The loop of StorageClient::new over the keys that it inserts.
RECURSIVE InsertAliases(_, _, _)
InsertAliases(aliases, config_values, ks) ==
  IF ks = {} THEN aliases
  ELSE LET k == CHOOSE x \in ks : TRUE
       IN  InsertAliases(
             insert(aliases, unwrap_or(strip_prefix(k, ALIAS_PREFIX), k),
                    config_values[k]),
             config_values, ks \ {k})

\* StorageClient::new: the aliases of the storage configuration, then one
\* insert per configuration value whose key has the prefix; an alias or a
\* value that is empty is logged and skipped.
StorageClient_new(config_aliases, config_values) ==
  InsertAliases(config_aliases, config_values, AliasKeys(config_values))

\* StorageClient::unalias
unalias_NoStrip(aliases, bucket_or_alias) ==
  unwrap_or(get(aliases, bucket_or_alias), bucket_or_alias)

unalias(aliases, bucket_or_alias) ==
  LET name == unwrap_or(strip_prefix(bucket_or_alias, ALIAS_PREFIX),
                        bucket_or_alias)
  IN  unwrap_or(get(aliases, name), name)

\* A link is put with the aliases its configuration builds.
link_aliases(s, config_aliases, config_values) ==
  /\ actors' = [actors EXCEPT ![s] =
                  Some(StorageClient_new(config_aliases, config_values))]
  /\ last' = [op |-> "link", source |-> s,
              aliases |-> config_aliases, values |-> config_values]
  /\ UNCHANGED << pc, shutdown, chan, nerr, inv, s3, lock >>

\* A handler of a linked component resolves a bucket name.
do_unalias(s, name) ==
  /\ actors[s] # None
  /\ last' = [op |-> "unalias", source |-> s, aliases |-> actors[s][1],
              name |-> name, res |-> unalias(actors[s][1], name)]
  /\ UNCHANGED << pc, shutdown, chan, nerr, actors, inv, s3, lock >>

AliasInit ==
  /\ pc = "select"
  /\ shutdown = FALSE
  /\ chan = [k \in Kinds |-> << >>]
  /\ nerr = 0
  /\ actors = [s \in SourceIds |-> None]
  /\ inv = [i \in InvIds |-> Withheld]
  /\ s3 = NoBucket
  /\ last = NoOp
  /\ lock = Unlocked

AliasNext ==
  \/ \E s \in SourceIds, a \in ConfigMaps, v \in ConfigMaps : link_aliases(s, a, v)
  \/ \E s \in SourceIds, n \in AliasNames : do_unalias(s, n)

AliasSpec == AliasInit /\ [][AliasNext]_vars

\* ------------------------------------------------------- unbiased select!
\* The streams never run out of callers: once the handler of an invocation
\* has returned, or the invocation was dropped, its record is forgotten and
\* the id stands for the next invocation a caller publishes.
Forget(i) ==
  /\ inv[i].st \in {"done", "dropped"}
  /\ inv' = [inv EXCEPT ![i] = Fresh]
  /\ UNCHANGED << pc, shutdown, chan, nerr, actors, s3, last, lock >>

SelectNext ==
  \/ Next
  \/ \E i \in InvIds : Forget(i)

\* Mutant: `biased;` polls the branches in their order, so the only promise
\* is that some ready branch is taken.
SelectFair_Biased == WF_vars(\E k \in Kinds : Accept(k))

\* select! without `biased;` starts polling at a random branch in every
\* iteration of the loop, so a branch that stays ready is taken.
SelectFair == \A k \in Kinds : WF_vars(Accept(k))

SelectSpec == Init /\ [][SelectNext]_vars /\ SelectFair

\* ------------------------------------------------- the registry and its lock
\* The registry is a map behind a tokio RwLock.  Tasks of the provider (link
\* notifications of the host, handlers looking their link up) run
\* concurrently; each await of a task is a step of its own.  The lock hands
\* itself to the waiting tasks first come first served: readers may hold it
\* together, a writer holds it alone.

MaxTasks == 3

Tasks == 1..MaxTasks

LinkedIds == {"a1", "a2"}

NoRes == [variant |-> "none", err |-> "none", val |-> "none"]

Idle == [op |-> "none", st |-> "idle", source |-> NoCtx, cfg |-> NoLink, res |-> NoRes]

\* RwLock::read / RwLock::write is called: the task joins the queue.
Enqueue(t) == [lock EXCEPT !.waiters = Append(@, t)]

\* The guard is dropped.
Release(t) ==
  [lock EXCEPT !.writer = IF @ = t THEN 0 ELSE @, !.readers = @ \ {t}]

\* Whether the lock can be handed to task t: to a reader unless a writer holds
\* it, to a writer when nobody holds it.
Compatible(t) ==
  IF inv[t].op = "client"
    THEN lock.writer = 0
    ELSE lock.writer = 0 /\ lock.readers = {}

\* .read().await / .write().await completes for the task at the head of the
\* queue.
Acquire(t) ==
  /\ lock.waiters # << >>
  /\ Head(lock.waiters) = t
  /\ Compatible(t)
  /\ lock' = [lock EXCEPT !.waiters = Tail(@),
                          !.writer = IF inv[t].op = "client" THEN @ ELSE t,
                          !.readers = IF inv[t].op = "client" THEN @ \cup {t} ELSE @]
  /\ inv' = [inv EXCEPT ![t] = [@ EXCEPT !.st = "held"]]
  /\ UNCHANGED << pc, shutdown, chan, nerr, actors, s3, last >>

\* Mutant: the result of StorageConfig::from_values is not looked at.
link_from_values_Unchecked(t, s, cfg) ==
  /\ inv[t].st = "idle"
  /\ inv' = [inv EXCEPT ![t] =
               [op |-> "link", st |-> "new", source |-> s, cfg |-> cfg,
                res |-> NoRes]]
  /\ UNCHANGED << pc, shutdown, chan, nerr, actors, s3, last, lock >>

\* Mutant: the write lock is taken first and held while the client is built.
link_from_values_Locked(t, s, cfg) ==
  /\ inv[t].st = "idle"
  /\ lock.writer = 0 /\ lock.readers = {}
  /\ inv' = [inv EXCEPT ![t] =
               IF from_values(cfg)
                 THEN [op |-> "link", st |-> "new", source |-> s, cfg |-> cfg,
                       res |-> NoRes]
                 ELSE [op |-> "link", st |-> "done", source |-> s, cfg |-> cfg,
                       res |-> Err("failed to build source config")]]
  /\ lock' = IF from_values(cfg) THEN [lock EXCEPT !.writer = t] ELSE lock
  /\ UNCHANGED << pc, shutdown, chan, nerr, actors, s3, last >>

\* receive_link_config_as_target up to the await of StorageClient::new: values
\* from which no StorageConfig can be built end the call with an error.
link_from_values(t, s, cfg) ==
  /\ inv[t].st = "idle"
  /\ inv' = [inv EXCEPT ![t] =
               IF from_values(cfg)
                 THEN [op |-> "link", st |-> "new", source |-> s, cfg |-> cfg,
                       res |-> NoRes]
                 ELSE [op |-> "link", st |-> "done", source |-> s, cfg |-> cfg,
                       res |-> Err("failed to build source config")]]
  /\ UNCHANGED << pc, shutdown, chan, nerr, actors, s3, last, lock >>

\* StorageClient::new(config, config_values).await completes; the task asks
\* for the write lock.
link_new_client(t) ==
  /\ inv[t].op = "link" /\ inv[t].st = "new"
  /\ inv' = [inv EXCEPT ![t] = [@ EXCEPT !.st = "wait"]]
  /\ lock' = Enqueue(t)
  /\ UNCHANGED << pc, shutdown, chan, nerr, actors, s3, last >>

\* update_map.insert(source_id, link); Ok(())
link_insert(t) ==
  /\ inv[t].op = "link" /\ inv[t].st = "held"
  /\ actors' = [actors EXCEPT ![inv[t].source] = inv[t].cfg]
  /\ inv' = [inv EXCEPT ![t] = [@ EXCEPT !.st = "done", !.res = Ok("unit")]]
  /\ lock' = Release(t)
  /\ last' = [op |-> "link", source |-> inv[t].source]
  /\ UNCHANGED << pc, shutdown, chan, nerr, s3 >>

\* delete_link: self.actors.write()
delete_link_write(t, s) ==
  /\ inv[t].st = "idle"
  /\ inv' = [inv EXCEPT ![t] =
               [op |-> "delete_link", st |-> "wait", source |-> s,
                cfg |-> NoLink, res |-> NoRes]]
  /\ lock' = Enqueue(t)
  /\ UNCHANGED << pc, shutdown, chan, nerr, actors, s3, last >>

\* Mutant: the registry is emptied.
delete_link_remove_Drain(t) ==
  /\ inv[t].op = "delete_link" /\ inv[t].st = "held"
  /\ actors' = [s \in DOMAIN actors |-> NoLink]
  /\ inv' = [inv EXCEPT ![t] = [@ EXCEPT !.st = "done", !.res = Ok("unit")]]
  /\ lock' = Release(t)
  /\ last' = [op |-> "delete_link", source |-> inv[t].source,
              removed |-> actors[inv[t].source]]
  /\ UNCHANGED << pc, shutdown, chan, nerr, s3 >>

\* aw.remove(source_id); Ok(())
delete_link_remove(t) ==
  /\ inv[t].op = "delete_link" /\ inv[t].st = "held"
  /\ actors' = [actors EXCEPT ![inv[t].source] = NoLink]
  /\ inv' = [inv EXCEPT ![t] = [@ EXCEPT !.st = "done", !.res = Ok("unit")]]
  /\ lock' = Release(t)
  /\ last' = [op |-> "delete_link", source |-> inv[t].source,
              removed |-> actors[inv[t].source]]
  /\ UNCHANGED << pc, shutdown, chan, nerr, s3 >>

\* shutdown: self.actors.write()
shutdown_write(t) ==
  /\ inv[t].st = "idle"
  /\ inv' = [inv EXCEPT ![t] =
               [op |-> "shutdown", st |-> "wait", source |-> NoCtx,
                cfg |-> NoLink, res |-> NoRes]]
  /\ lock' = Enqueue(t)
  /\ UNCHANGED << pc, shutdown, chan, nerr, actors, s3, last >>

\* aw.drain(); Ok(())
shutdown_drain(t) ==
  /\ inv[t].op = "shutdown" /\ inv[t].st = "held"
  /\ actors' = [s \in DOMAIN actors |-> NoLink]
  /\ inv' = [inv EXCEPT ![t] = [@ EXCEPT !.st = "done", !.res = Ok("unit")]]
  /\ lock' = Release(t)
  /\ last' = [op |-> "shutdown", source |-> NoCtx]
  /\ UNCHANGED << pc, shutdown, chan, nerr, s3 >>

\* client(): without a source id in the context the call fails at once;
\* otherwise self.actors.read()
client_read(t, c) ==
  /\ inv[t].st = "idle"
  /\ IF c = NoCtx
       THEN /\ inv' = [inv EXCEPT ![t] =
                         [op |-> "client", st |-> "done", source |-> c,
                          cfg |-> NoLink, res |-> Err("no_source_id")]]
            /\ lock' = lock
       ELSE /\ inv' = [inv EXCEPT ![t] =
                         [op |-> "client", st |-> "wait", source |-> c,
                          cfg |-> NoLink, res |-> NoRes]]
            /\ lock' = Enqueue(t)
  /\ UNCHANGED << pc, shutdown, chan, nerr, actors, s3, last >>

\* .get(source_id).with_context(..).cloned()
client_get(t) ==
  /\ inv[t].op = "client" /\ inv[t].st = "held"
  /\ inv' = [inv EXCEPT ![t] =
               [@ EXCEPT !.st = "done",
                         !.cfg = client(inv[t].source),
                         !.res = IF client(inv[t].source) = NoLink
                                   THEN Err("unknown_link")
                                   ELSE Ok("client")]]
  /\ lock' = Release(t)
  /\ UNCHANGED << pc, shutdown, chan, nerr, actors, s3, last >>

\* The task has returned; its id stands for the next task.
Finished(t) ==
  /\ inv[t].st = "done"
  /\ inv' = [inv EXCEPT ![t] = Idle]
  /\ UNCHANGED << pc, shutdown, chan, nerr, actors, s3, last, lock >>

RegistryInit ==
  /\ pc = "select"
  /\ shutdown = FALSE
  /\ chan = [k \in Kinds |-> << >>]
  /\ nerr = 0
  /\ actors = [s \in LinkedIds |-> NoLink]
  /\ inv = [t \in Tasks |-> Idle]
  /\ s3 = NoBucket
  /\ last = NoOp
  /\ lock = Unlocked

RegistryNext ==
  \/ \E t \in Tasks, s \in LinkedIds, cfg \in LinkValues : link_from_values(t, s, cfg)
  \/ \E t \in Tasks : link_new_client(t)
  \/ \E t \in Tasks : link_insert(t)
  \/ \E t \in Tasks, s \in LinkedIds : delete_link_write(t, s)
  \/ \E t \in Tasks : delete_link_remove(t)
  \/ \E t \in Tasks : shutdown_write(t)
  \/ \E t \in Tasks : shutdown_drain(t)
  \/ \E t \in Tasks, c \in LinkedIds \cup {NoCtx} : client_read(t, c)
  \/ \E t \in Tasks : client_get(t)
  \/ \E t \in Tasks : Acquire(t)
  \/ \E t \in Tasks : Finished(t)

RegistrySpec == RegistryInit /\ [][RegistryNext]_vars

\* ------------------------------------------------- the aliases of a new link
\* StorageClient::new is applied to a storage configuration and to the
\* configuration values of a link, which may hold several entries.

MaxValues == 2

\* The configuration values of a link: at most MaxValues entries.
LinkConfigMaps ==
  UNION { [K -> AliasNames] :
            K \in { D \in SUBSET AliasNames : Cardinality(D) <= MaxValues } }

\* The host sends a link for source id s: the client is built from the
\* configuration at hand and stored.
link_built(s) ==
  /\ last.op = "config"
  /\ actors' = [actors EXCEPT ![s] =
                  Some(StorageClient_new(last.aliases, last.values))]
  /\ last' = [last EXCEPT !.op = "link"]
  /\ UNCHANGED << pc, shutdown, chan, nerr, inv, s3, lock >>

\* The link is dropped again.
link_dropped(s) ==
  /\ last.op = "link"
  /\ actors[s] # None
  /\ actors' = [actors EXCEPT ![s] = None]
  /\ last' = [last EXCEPT !.op = "dropped"]
  /\ UNCHANGED << pc, shutdown, chan, nerr, inv, s3, lock >>

BuildInit ==
  /\ pc = "select"
  /\ shutdown = FALSE
  /\ chan = [k \in Kinds |-> << >>]
  /\ nerr = 0
  /\ actors = [s \in SourceIds |-> None]
  /\ inv = [i \in InvIds |-> Withheld]
  /\ s3 = NoBucket
  /\ \E a \in ConfigMaps, v \in LinkConfigMaps :
       last = [op |-> "config", aliases |-> a, values |-> v]
  /\ lock = Unlocked

BuildNext ==
  \/ \E s \in SourceIds : link_built(s)
  \/ \E s \in SourceIds : link_dropped(s)

BuildSpec == BuildInit /\ [][BuildNext]_vars

\* ------------------------------------------------------- ranges of an object
\* get-container-data on a bucket that holds objects of up to MaxSize bytes,
\* for ranges up to MaxEnd.

MaxSize == 2

MaxEnd == 3

SizedBlobs == UNION { [1..n -> Octets] : n \in 0..MaxSize }

do_get_container_range ==
  \E ctx \in Contexts, k \in Keys, start \in 0..MaxEnd, end \in 0..MaxEnd,
     svc \in Service :
    get_container_data(ctx, k, start, end, svc)

RangeInit ==
  /\ pc = "select"
  /\ shutdown = FALSE
  /\ chan = [k \in Kinds |-> << >>]
  /\ nerr = 0
  /\ actors = [s \in SourceIds |-> NoLink]
  /\ inv = [i \in InvIds |-> Withheld]
  /\ s3 \in {NoBucket} \cup
            { [exists |-> TRUE, objs |-> o] :
                o \in UNION { [K -> SizedBlobs] : K \in SUBSET Keys } }
  /\ last = NoOp
  /\ lock = Unlocked

RangeNext ==
  \/ \E s \in SourceIds, cfg \in LinkValues : receive_link_config_as_target(s, cfg)
  \/ \E s \in SourceIds : delete_link(s)
  \/ do_get_container_range

RangeSpec == RangeInit /\ [][RangeNext]_vars

\* ------------------------------------------------------------ properties

\* C1: no invocation gets more than one outcome transmission: a handler never
\* transmits a result and an error for the same invocation, nor either twice,
\* whatever the interleaving with other handlers, link changes,
\* resubscription and shutdown.
C1_AtMostOneTransmission == \A i \in InvIds : inv[i].ntx <= 1

\* Both transmission sites have been exercised, after serve() returned: a
\* buffering error sent on the error subject and a two-call clear-container.
C1_Witness ==
  /\ pc = "returned_ok"
  /\ \E i, j \in InvIds :
       /\ inv[i].st = "done" /\ inv[i].out.subject = "error" /\ inv[i].ntx = 1
       /\ inv[j].st = "done" /\ inv[j].kind = "clear_container"
       /\ inv[j].calls = 2 /\ inv[j].ntx = 1

C3_UnknownLinkAlways ==
  \A i \in InvIds :
    (inv[i].st = "done" /\ (inv[i].ctx = NoCtx \/ inv[i].lookup = "failed"))
      => (inv[i].out.err = "unknown_link" /\ inv[i].calls = 0)

\* C3 amended: a handler that performs the link lookup while the context is
\* absent or its source id has no registry entry transmits the unknown-link
\* error and makes no backend call; an invocation without context that never
\* reaches the lookup fails with the range error (get-container-data) or the
\* buffering error (write-container-data), also without a backend call.
C3_UnknownLinkAtLookup ==
  /\ [][\A i \in InvIds :
          (inv[i].lookup = "none" /\ inv'[i].lookup # "none") =>
            /\ (inv'[i].lookup = "failed") <=>
                 (inv'[i].ctx \notin SourceIds \/ actors[inv'[i].ctx] = NoLink)
            /\ (inv'[i].lookup = "failed") =>
                 /\ inv'[i].st = "done"
                 /\ inv'[i].out = [subject |-> "result", variant |-> "err",
                                   err |-> "unknown_link", val |-> "none"]
                 /\ inv'[i].calls = 0
                 /\ inv'[i].ntx = 1]_vars
  /\ [](\A i \in InvIds :
          (inv[i].st = "done" /\ inv[i].ctx = NoCtx) =>
            /\ inv[i].calls = 0
            /\ inv[i].out.variant = "err"
            /\ \/ inv[i].out.err = "unknown_link" /\ inv[i].lookup = "failed"
               \/ inv[i].out.err = "range" /\ inv[i].kind = "get_container_data"
               \/ inv[i].out.err = "stream" /\ inv[i].kind = "write_container_data")

\* Both lookup failures have happened: one invocation without context and one
\* whose source id had no entry when write-container-data looked it up.
C3_Witness ==
  \E i, j \in InvIds :
    /\ inv[i].st = "done" /\ inv[i].lookup = "failed" /\ inv[i].ctx = NoCtx
    /\ inv[j].st = "done" /\ inv[j].lookup = "failed" /\ inv[j].ctx = "a1"
    /\ inv[j].kind = "write_container_data"

\* C4: while serve() is running no buffered invocation is lost: an invocation
\* delivered on one channel survives the resubscription that the end of
\* another channel causes.
C4_NoneLostOnResubscribe ==
  pc \in {"subscribe", "select"} => \A i \in InvIds : inv[i].st # "dropped"

Returns == {"returned_ok", "returned_err"}

\* C5: a handler that has not completed never holds up the rest: while it is
\* in flight the dispatcher can accept whatever is buffered on any channel,
\* and every other handler in flight can take its next step.
C5_HandlersIndependent ==
  \A i \in InvIds :
    inv[i].st \in Running =>
      /\ \A k \in Kinds : (pc = "select" /\ chan[k] # << >>) => ENABLED Accept(k)
      /\ \A j \in InvIds : (j # i /\ inv[j].st \in Running) => ENABLED Handler(j)

\* A get-container-data handler accepted first is still at its start while a
\* container-exists invocation delivered after it has got its result.
C5_Witness ==
  /\ inv[1].st = "start" /\ inv[1].handler = "get_container_data"
  /\ inv[2].st = "done" /\ inv[2].kind = "container_exists"
  /\ inv[2].out.variant = "ok"

\* C6: no step of a handler, failing or not, moves serve() or touches the
\* streams, and after a handler has failed the dispatcher in its loop still
\* accepts what is buffered on every channel.
C6_FailuresStayInHandler ==
  /\ [][\A i \in InvIds :
          (inv[i].st \in Running /\ inv'[i] # inv[i]) =>
            (pc' = pc /\ chan' = chan /\ shutdown' = shutdown)]_vars
  /\ []((\E i \in InvIds : inv[i].st = "done" /\ inv[i].out.variant = "err") =>
          \A k \in Kinds : (pc = "select" /\ chan[k] # << >>) => ENABLED Accept(k))

\* A handler has failed with a backend error, a transmission has failed, and
\* serve() is in its loop with another invocation buffered.
C6_Witness ==
  /\ pc = "select"
  /\ nerr = MaxErr
  /\ \E i, j \in InvIds :
       /\ inv[i].st = "done" /\ inv[i].out.err = "backend"
       /\ inv[j].st = "queued"

\* C7: once the shutdown signal has resolved, serve() eventually returns.
C7_ShutdownReturns == shutdown ~> (pc \in Returns)

\* The signal has resolved while serve() is resubscribing after a channel ended.
C7_Witness ==
  /\ shutdown
  /\ pc = "subscribe"
  /\ \E i \in InvIds : inv[i].st = "dropped"

\* C8: in its loop serve() can take the shutdown branch whatever handlers are
\* in flight; taking it returns success and leaves the handlers as they are;
\* once serve() has returned nothing is accepted and no handler is spawned.
C8_ShutdownImmediate ==
  /\ []((pc = "select" /\ shutdown) => ENABLED ShutdownReturn)
  /\ [][(pc = "select" /\ pc' \in Returns) =>
          (/\ shutdown
           /\ pc' = "returned_ok"
           /\ \A i \in InvIds : inv[i].st # "queued" => inv'[i] = inv[i])]_vars
  /\ [][(pc \in Returns) =>
          (/\ pc' = pc
           /\ chan' = chan
           /\ \A i \in InvIds : inv'[i].st = "start" => inv[i].st = "start")]_vars

\* serve() has returned success with one handler in flight and one buffered
\* invocation left unaccepted.
C8_Witness ==
  /\ pc = "returned_ok"
  /\ \E i, j \in InvIds : inv[i].st \in Running /\ inv[j].st = "dropped"

\* C9: a failed subscription, at startup or when resubscribing, makes serve()
\* return an error, and serve() returns success only after the shutdown
\* signal.
C9_SubscribeErrors ==
  [][(/\ \A k \in Kinds : SubscribeFail(k) => pc' = "returned_err"
      /\ (pc' = "returned_ok" /\ pc # "returned_ok") => (shutdown /\ pc = "select")
      /\ (pc' = "returned_err" /\ pc # "returned_err") => pc = "subscribe")]_vars

\* serve() has returned an error from a resubscription: an invocation
\* buffered before the channel ended was dropped on the way.
C9_Witness ==
  /\ pc = "returned_err"
  /\ \E i \in InvIds : inv[i].st = "dropped"

\* C11 as stated: when the stream of a kind yields an error item, that
\* channel is resubscribed (serve() goes back to subscribing) and the other
\* channels keep what they hold.
C11_ErrorResubscribes ==
  [][\A k \in Kinds :
       AcceptError(k) =>
         (pc' = "subscribe" /\ \A j \in Kinds \ {k} : chan'[j] = chan[j])]_vars

\* C11, amended: an error item is only logged. The step that takes it leaves
\* serve() in its loop and every stream, the affected one included, with its
\* subscription and its buffered invocations; no invocation is dropped.
C11_ErrorOnlyLogged ==
  [][(nerr' # nerr /\ \A i \in InvIds : inv'[i].ntx = inv[i].ntx) =>
       (/\ pc = "select" /\ pc' = "select"
        /\ chan' = chan
        /\ inv' = inv
        /\ nerr' = nerr + 1)]_vars

\* An error item has been taken (a failure is logged and no handler has
\* transmitted anything) while an invocation sits buffered in a stream, and
\* serve() is in its loop.
C11_Witness ==
  /\ pc = "select"
  /\ nerr = 1
  /\ \A i \in InvIds : inv[i].ntx = 0
  /\ \E i \in InvIds : inv[i].st = "queued" /\ chan[inv[i].kind] = << i >>

\* C12: the registry maps every source id to at most one link, and an upsert
\* with a configuration a link can be built from always leaves the lookup of
\* that source id returning the link of that configuration, whatever entry
\* the id had before.
C12_UpsertReplaces ==
  /\ actors \in [SourceIds -> {NoLink} \cup { cfg \in LinkValues : from_values(cfg) }]
  /\ \A s \in SourceIds, cfg \in LinkValues :
       from_values(cfg) =>
         /\ ENABLED (receive_link_config_as_target(s, cfg) /\ client(s)' = cfg)
         /\ ~ENABLED (receive_link_config_as_target(s, cfg) /\ client(s)' # cfg)

\* An operation ran on the link of configuration c1, and the entry of its
\* source id has since been replaced by the link of c2.
C12_Witness ==
  /\ last.op # "none"
  /\ last.ctx = "a1" /\ last.link = "c1"
  /\ client("a1") = "c2"

\* C13: get-container-data whose `end` is not strictly greater than its
\* `start` (smaller or equal) fails with the range error and makes no
\* backend call.
C13_RangeRejected ==
  (last.op = "get_container_data" /\ last.args[3] <= last.args[2]) =>
    (last.res.err = "range" /\ last.calls = 0)

\* C14: a successful write-container-data(id, bytes) followed, on the same
\* link and with the service answering, by get-container-data(id, 0,
\* len(bytes)) returns exactly bytes.
C14_RoundTrip ==
  [][(/\ last.op = "write_container_data"
      /\ last.res.variant = "ok"
      /\ last'.op = "get_container_data"
      /\ last'.args = << last.args[1], 0, Len(last.args[2]) >>
      /\ last'.link = last.link
      /\ last'.svc = << "up" >>) =>
       (last'.res.variant = "ok" /\ last'.res.val = last.args[2])]_vars

\* C15: when clear-container has completed with a success outcome (no other
\* operation ran meanwhile), the container holds no objects, however many it
\* held before.
C15_ClearEmpties ==
  (last.op = "clear_container" /\ last.res.variant = "ok") =>
    DOMAIN s3.objs = {}

\* C16: a successful list-container-objects(container, limit, offset) returns
\* the container's names in order with the first `offset` skipped and then at
\* most `limit` kept; an absent offset skips nothing, an absent limit bounds
\* nothing.
C16_ListWindow ==
  (last.op = "list_container_objects" /\ last.res.variant = "ok") =>
    last.res.val =
      take(skip(InOrder(DOMAIN s3.objs), unwrap_or(last.args[2], 0)),
           unwrap_or(last.args[1], Cardinality(DOMAIN s3.objs)))

\* C17: a move-object whose copy succeeded and whose delete of the source
\* failed ends with an error outcome, and leaves the object both at the
\* source and, with the same contents, at the destination.
C17_MoveKeepsCopy ==
  [][(/\ last'.op = "move_object"
      /\ last'.calls = 2
      /\ last'.svc[2] = "down") =>
       (/\ last'.res.variant = "err"
        /\ last'.args[1] \in DOMAIN s3.objs
        /\ {last'.args[1], last'.args[2]} \subseteq DOMAIN s3'.objs
        /\ s3'.objs[last'.args[1]] = s3.objs[last'.args[1]]
        /\ s3'.objs[last'.args[2]] = s3.objs[last'.args[1]])]_vars

\* A move from key 1 to key 2 has failed at its second call; key 2, absent
\* before, now holds what key 1 holds.
C17_Witness ==
  /\ last.op = "move_object"
  /\ last.args = << 1, 2 >>
  /\ last.calls = 2
  /\ last.res.variant = "err"
  /\ DOMAIN s3.objs = {1, 2}
  /\ s3.objs[1] = << 1 >> /\ s3.objs[2] = << 1 >>

\* C18: when the inbound stream of write-container-data yields an error while
\* it is buffered, the handler transmits an error outcome and returns: it
\* makes no backend call then, and none later.
C18_StreamErrorNoCall ==
  /\ [][\A i \in InvIds :
          (/\ inv[i].handler = "write_container_data"
           /\ inv[i].st = "start"
           /\ inv'[i].ntx = 1) =>
            (/\ inv'[i].st = "done"
             /\ inv'[i].out.variant = "err"
             /\ inv'[i].out.err = "stream"
             /\ inv'[i].calls = 0)]_vars
  /\ [][\A i \in InvIds : inv[i].st = "done" => inv'[i] = inv[i]]_vars
  /\ [](\A i \in InvIds :
          inv[i].out.err = "stream" => (inv[i].st = "done" /\ inv[i].calls = 0))

\* A write-container-data handler has ended on the buffering error, for an
\* invocation of a source id whose link is registered.
C18_Witness ==
  \E i \in InvIds :
    /\ inv[i].kind = "write_container_data"
    /\ inv[i].st = "done"
    /\ inv[i].out.err = "stream"
    /\ inv[i].ctx \in SourceIds
    /\ actors[inv[i].ctx] # NoLink

\* C19: delete-objects with an empty key set succeeds without a backend call,
\* whatever the service would have answered; and so clear-container on an
\* existing, empty container succeeds with exactly one backend call, the
\* listing.
C19_EmptyDeleteNoCall ==
  /\ []((/\ last.op = "delete_objects"
         /\ last.link # NoLink
         /\ last.args[1] = << >>) =>
          (last.res.variant = "ok" /\ last.calls = 0))
  /\ [][(/\ last'.op = "clear_container"
         /\ last'.link # NoLink
         /\ last'.svc[1] = "up"
         /\ s3.exists
         /\ DOMAIN s3.objs = {}
         /\ do_clear_container) =>
          (last'.res.variant = "ok" /\ last'.calls = 1 /\ s3' = s3)]_vars

\* clear-container has succeeded on an empty container with its one call,
\* at a moment when a delete request would have failed.
C19_Witness ==
  /\ last.op = "clear_container"
  /\ last.svc = << "up", "down" >>
  /\ last.calls = 1
  /\ last.res.variant = "ok"
  /\ s3.exists /\ DOMAIN s3.objs = {}

\* The target of the last operation (the container, or the object named by
\* its first parameter) is in the bucket.
TargetPresent ==
  IF last.op \in {"container_exists", "get_container_info"}
    THEN s3.exists
    ELSE last.args[1] \in DOMAIN s3.objs

\* C20: for container-exists, has-object, get-container-info and
\* get-object-info run on a registered link: a failing service gives an error
\* outcome for all four; a not-found answer gives a successful false for the
\* two existence operations and an error outcome for the two info
\* operations; a found target gives a successful true, or the info.
C20_NotFoundMapping ==
  (/\ last.op \in {"container_exists", "has_object",
                   "get_container_info", "get_object_info"}
   /\ last.link # NoLink) =>
    /\ last.calls = 1
    /\ last.svc[1] = "down" => last.res.variant = "err"
    /\ (last.svc[1] = "up" /\ ~TargetPresent) =>
         IF last.op \in {"container_exists", "has_object"}
           THEN last.res.variant = "ok" /\ last.res.val = "false"
           ELSE last.res.variant = "err" /\ last.res.err = "notfound"
    /\ (last.svc[1] = "up" /\ TargetPresent) =>
         /\ last.res.variant = "ok"
         /\ last.res.val = IF last.op \in {"container_exists", "has_object"}
                             THEN "true" ELSE "info"

\* has-object has answered false for a key that is not in an existing
\* container that holds another object.
C20_Witness ==
  /\ last.op = "has_object"
  /\ last.args = << 2 >>
  /\ last.res.variant = "ok" /\ last.res.val = "false"
  /\ s3.exists /\ DOMAIN s3.objs = {1}

\* C21: create-container on a registered link, with the service answering,
\* succeeds whether or not the container already exists; on a container that
\* already exists it leaves the bucket as it is, so applying it twice gives
\* the outcome and the bucket of applying it once.
C21_CreateIdempotent ==
  [][(/\ last'.op = "create_container"
      /\ last'.link # NoLink
      /\ last'.svc[1] = "up"
      /\ do_create_container) =>
       (/\ last'.res.variant = "ok"
        /\ last'.res.val = "unit"
        /\ s3' = [s3 EXCEPT !.exists = TRUE]
        /\ s3.exists => s3' = s3)]_vars

\* create-container has succeeded on a container that holds an object, so
\* one that existed before the call.
C21_Witness ==
  /\ last.op = "create_container"
  /\ last.calls = 1
  /\ last.res.variant = "ok"
  /\ s3.exists /\ DOMAIN s3.objs # {}

\* C22: resolving a name strips the alias marker when the name begins with
\* it, and answers the table's value for the remaining candidate when the
\* candidate is a key of the table, the candidate itself otherwise; every
\* name has an answer.
C22_ResolveDefinition ==
  last.op = "unalias" =>
    LET n == last.name
        t == last.aliases
        c == IF Len(n) > 0 /\ n[1] = ALIAS_PREFIX THEN Tail(n) ELSE n
    IN  /\ (c \in DOMAIN t) => last.res = t[c]
        /\ (c \notin DOMAIN t) => last.res = c
        /\ last.res \in Seq(Symbols)

C22_Witness ==
  /\ last.op = "unalias"
  /\ last.name = << ALIAS_PREFIX, "x" >>
  /\ DOMAIN last.aliases = {<< "x", "x" >>}
  /\ last.res = << "x" >>

\* C23: a name that is not a key of the table resolves to itself.  As stated,
\* for every name that is not a key:
C23_NonKeyUnchanged ==
  (last.op = "unalias" /\ last.name \notin DOMAIN last.aliases) =>
    last.res = last.name

\* C23, amended: a name that is not a key of the table and does not begin
\* with the alias marker resolves to itself; a name that begins with the
\* marker and whose remainder is not a key resolves to the remainder.
C23_PlainNonKeyUnchanged ==
  (last.op = "unalias" /\ last.name \notin DOMAIN last.aliases) =>
    LET n == last.name
    IN  IF Len(n) > 0 /\ n[1] = ALIAS_PREFIX
        THEN (Tail(n) \notin DOMAIN last.aliases) => last.res = Tail(n)
        ELSE last.res = n

C23_Witness ==
  /\ last.op = "unalias"
  /\ last.name = << "x" >>
  /\ DOMAIN last.aliases = {<< "x", "x" >>}
  /\ last.res = << "x" >>

\* C24: resolving is idempotent: for every table and every name, resolving
\* the resolved name again gives the resolved name.
C24_ResolveIdempotent ==
  last.op = "unalias" => unalias(last.aliases, last.res) = last.res

\* C25: when the stream of any one kind ends, the dispatcher leaves the loop
\* for the subscription phase and drops the streams of all kinds with what
\* they have buffered, not only the one that ended; the loop is entered again
\* only from the subscription phase, with a new and empty stream for every
\* kind.
C25_ResubscribeAll ==
  /\ [](\A k \in Kinds :
          (pc = "select" /\ chan[k] = << >>) =>
            ENABLED (Resubscribe(k) /\ pc' = "subscribe"))
  /\ [][(pc = "select" /\ pc' = "subscribe") =>
          (/\ \A j \in Kinds : chan'[j] = << >>
           /\ \A i \in InvIds : inv[i].st = "queued" => inv'[i].st = "dropped"
           /\ \A i \in InvIds : inv'[i].st # "queued")]_vars
  /\ [][(pc = "subscribe" /\ pc' # "subscribe") =>
          (/\ pc' \in {"select", "returned_err"}
           /\ \A j \in Kinds : chan'[j] = << >>)]_vars

C25_Witness ==
  /\ pc = "select"
  /\ ~shutdown
  /\ \E i, j \in InvIds :
       /\ inv[i].st = "dropped"
       /\ inv[j].st = "queued"
       /\ chan[inv[j].kind] = << j >>

\* C26: the step that takes an error item of the stream of kind k spawns no
\* handler and leaves serve() in its loop with that stream as it was; and
\* once an error item has been taken, an invocation buffered in any stream is
\* still accepted, by the handler of its kind.
C26_ErrorThenAccept ==
  /\ [][\A k \in Kinds :
          AcceptError(k) =>
            (/\ pc' = "select"
             /\ chan'[k] = chan[k]
             /\ \A i \in InvIds :
                  inv'[i].st = inv[i].st /\ inv'[i].handler = inv[i].handler)]_vars
  /\ [](\A k \in Kinds :
          (pc = "select" /\ nerr > 0 /\ chan[k] # << >>) =>
            ENABLED (/\ Accept(k)
                     /\ inv'[Head(chan[k])].st = "start"
                     /\ inv'[Head(chan[k])].handler = k))

\* An error item has been taken (a failure is logged, and no handler has
\* transmitted), one invocation has been accepted and another waits in its
\* stream, where serve() can accept it.
C26_Witness ==
  /\ pc = "select"
  /\ nerr = 1
  /\ \A i \in InvIds : inv[i].ntx = 0
  /\ inv[1].st = "start"
  /\ inv[2].st = "queued"
  /\ ENABLED Accept(inv[2].kind)

\* C27: the step that accepts an invocation from the stream of kind k takes
\* one invocation of kind k out of that stream and spawns one handler task
\* for it, running the handler function of kind k, and touches no other
\* invocation; an accepted invocation is in no stream any more, keeps its
\* handler function, and is never started a second time.
C27_OneHandlerOfItsKind ==
  /\ [](\A i \in InvIds :
          /\ inv[i].handler # "none" => inv[i].handler = inv[i].kind
          /\ inv[i].st # "queued" =>
               \A k \in Kinds : \A n \in 1..Len(chan[k]) : chan[k][n] # i)
  /\ [][\A k \in Kinds :
          Accept(k) =>
            LET i == Head(chan[k])
            IN  /\ inv[i].st = "queued" /\ inv[i].kind = k
                /\ inv[i].handler = "none"
                /\ inv'[i].st = "start" /\ inv'[i].handler = k
                /\ \A j \in InvIds \ {i} : inv'[j] = inv[j]]_vars
  /\ [][\A i \in InvIds :
          /\ inv'[i].st = "start" => inv[i].st \in {"queued", "start"}
          /\ inv[i].handler # "none" => inv'[i].handler = inv[i].handler]_vars

\* Two invocations of different kinds have been accepted: the handler of one
\* has returned, the handler of the other has just been spawned.
C27_Witness ==
  /\ inv[1].st = "done" /\ inv[1].handler = "copy_object"
  /\ inv[1].kind = "copy_object"
  /\ inv[2].st = "start" /\ inv[2].handler = "write_container_data"
  /\ inv[2].kind = "write_container_data"

\* C28: an invocation buffered in the stream of any kind is eventually
\* accepted, whatever the streams of the other kinds have ready, unless
\* serve() leaves its loop first (shutdown, or a stream that ended), which
\* drops it.
C28_NoStarvation ==
  \A i \in InvIds :
    (inv[i].st = "queued") ~> (inv[i].st \in Running \cup {"dropped"})

\* An invocation has been accepted from the stream of its kind while the
\* stream of another kind holds an invocation that is ready.
C28_Witness ==
  /\ pc = "select" /\ ~shutdown
  /\ inv[1].st = "start" /\ inv[1].kind = "clear_container"
  /\ inv[2].st = "queued" /\ inv[2].kind = "write_container_data"
  /\ chan["write_container_data"] = << 2 >>

\* C29: removing a source id deletes its entry when it has one and changes
\* nothing when it has none; the entry of every other source id stays as it
\* is; and a lookup for the removed id that reads the registry next, before
\* any other change of the registry, fails with the unknown-link error.
C29_RemoveOnlyThatEntry ==
  /\ [][\A t \in Tasks :
          (inv[t].op = "delete_link" /\ delete_link_remove(t)) =>
            LET s == inv[t].source
            IN  /\ actors'[s] = NoLink
                /\ \A o \in LinkedIds \ {s} : actors'[o] = actors[o]
                /\ actors[s] = NoLink => actors' = actors
                /\ inv'[t].res.variant = "ok"]_vars
  /\ [][\A t \in Tasks :
          (/\ last.op = "delete_link"
           /\ inv[t].op = "client"
           /\ inv[t].source = last.source
           /\ client_get(t)) =>
            inv'[t].res.err = "unknown_link"]_vars

\* The link of a1 was removed while a2 keeps its link, and a lookup for a1
\* has since failed.
C29_Witness ==
  /\ last.op = "delete_link" /\ last.source = "a1" /\ last.removed = "c1"
  /\ actors["a1"] = NoLink /\ actors["a2"] = "c2"
  /\ \E t \in Tasks :
       /\ inv[t].op = "client" /\ inv[t].source = "a1" /\ inv[t].st = "done"
       /\ inv[t].res.err = "unknown_link"

C31_AliasTableBuilt ==
  last.op = "link" =>
    \A s \in SourceIds :
      /\ actors[s] # None
      /\ LET table == actors[s][1]
             marked(x) == << ALIAS_PREFIX >> \o x
             valid(x) == /\ x # << >>
                         /\ marked(x) \in DOMAIN last.values
                         /\ last.values[marked(x)] # << >>
         IN  \A x \in AliasNames \cup DOMAIN table :
               IF valid(x)
                 THEN x \in DOMAIN table /\ table[x] = last.values[marked(x)]
               ELSE IF x \in DOMAIN last.aliases
                 THEN x \in DOMAIN table /\ table[x] = last.aliases[x]
               ELSE x \notin DOMAIN table

\* A link whose values override the configured alias of x, and hold one
\* entry with an empty alias name besides: the table has the overriding entry
\* alone.
C31_Witness ==
  /\ last.op = "link"
  /\ last.aliases = [x \in {<< "x" >>} |-> << ALIAS_PREFIX >>]
  /\ DOMAIN last.values = {<< ALIAS_PREFIX, "x" >>, << ALIAS_PREFIX >>}
  /\ last.values[<< ALIAS_PREFIX, "x" >>] = << "x", "x" >>
  /\ last.values[<< ALIAS_PREFIX >>] = << "x" >>
  /\ actors["a1"] = Some([x \in {<< "x" >>} |-> << "x", "x" >>])

\* C32: get-container-data with `end` greater than `start` that succeeds
\* answers with bytes of the object, beginning at `start`, and never with
\* more than end - start of them, whatever the size of the object.
C32_AtMostLimitBytes ==
  (/\ last.op = "get_container_data"
   /\ last.args[3] > last.args[2]
   /\ last.res.variant = "ok") =>
     LET obj == s3.objs[last.args[1]]
         start == last.args[2]
         end == last.args[3]
         n == Len(last.res.val)
     IN  /\ n <= end - start
         /\ last.res.val = SubSeq(obj, start + 1, start + n)

\* Bytes 0 to 1 of an object of two bytes were asked for: the backend has
\* two bytes in that range, one is answered.
C32_Witness ==
  /\ last.op = "get_container_data"
  /\ last.args[2] = 0 /\ last.args[3] = 1
  /\ last.res.variant = "ok"
  /\ Len(s3.objs[last.args[1]]) = 2
  /\ Len(last.res.val) = 1

\* C33: a move-object of a linked component whose copy fails makes that one
\* backend call and no delete, answers with an error outcome, and leaves the
\* bucket as it was, the source object included; a move-object that issued
\* the delete had its copy succeed.
C33_DeleteOnlyAfterCopy ==
  [][(/\ last'.op = "move_object"
      /\ last'.link # NoLink
      /\ do_move_object) =>
       LET c == S3_copy_object(s3, last'.args[1], last'.args[2], last'.svc[1])
       IN  /\ c.resp # "ok" =>
                (/\ last'.calls = 1
                 /\ last'.res.variant = "err"
                 /\ s3' = s3)
           /\ last'.calls = 2 => c.resp = "ok"]_vars

\* A move of an object that exists has failed at its copy: one call was
\* made and the object is still there.
C33_Witness ==
  /\ last.op = "move_object"
  /\ last.link # NoLink
  /\ last.svc[1] = "down"
  /\ last.calls = 1
  /\ last.res.variant = "err"
  /\ last.args[1] \in DOMAIN s3.objs

\* C34: a link call whose values no storage configuration can be built from
\* returns an error at once: it never asks for the lock, the step leaves
\* every entry of the registry as it is, and no entry of the registry ever
\* comes from such values.
C34_RejectedLinkChangesNothing ==
  /\ [](\A t \in Tasks :
          (inv[t].op = "link" /\ ~ from_values(inv[t].cfg)) =>
            /\ inv[t].st = "done"
            /\ inv[t].res.variant = "err"
            /\ lock.writer # t
            /\ \A n \in 1..Len(lock.waiters) : lock.waiters[n] # t)
  /\ [](\A s \in LinkedIds : actors[s] # NoLink => from_values(actors[s]))
  /\ [][\A t \in Tasks :
          (/\ inv[t].st = "idle"
           /\ inv'[t].op = "link"
           /\ ~ from_values(inv'[t].cfg)) =>
            (actors' = actors /\ lock' = lock /\ last' = last)]_vars

\* A link call for a1 with values that cannot be built has returned its
\* error; a1 still has its earlier link and a2 its own.
C34_Witness ==
  /\ actors["a1"] = "c1" /\ actors["a2"] = "c2"
  /\ \E t \in Tasks :
       /\ inv[t].op = "link" /\ inv[t].st = "done"
       /\ inv[t].source = "a1" /\ inv[t].cfg = "invalid"
       /\ inv[t].res.variant = "err"

\* C35: a handler that has looked its link up keeps that client until it
\* returns, whatever happens to the registry meanwhile; it can always take
\* its next step; a link, remove or shutdown call can always be made while
\* such a handler is at work; and a change of the registry changes nothing
\* of any handler.
C35_ResolvedHandlerUnaffected ==
  /\ [](\A i \in InvIds :
          (inv[i].lookup = "found" /\ inv[i].st # "done") =>
            /\ ENABLED Handler(i)
            /\ ENABLED shutdown_links
            /\ \A s \in SourceIds :
                 /\ ENABLED delete_link(s)
                 /\ \A cfg \in Configs :
                      ENABLED receive_link_config_as_target(s, cfg))
  /\ [][\A i \in InvIds :
          inv[i].lookup = "found" =>
            /\ inv'[i].lookup = "found"
            /\ inv'[i].client = inv[i].client
            /\ inv'[i].ctx = inv[i].ctx
            /\ inv'[i].calls >= inv[i].calls]_vars
  /\ [][(actors' # actors) => inv' = inv]_vars

\* The link of a1 is gone from the registry while one handler of a1 still
\* works with the client it looked up, and another has returned a success
\* with its own.
C35_Witness ==
  /\ actors["a1"] = NoLink
  /\ \E i, j \in InvIds :
       /\ inv[i].ctx = "a1" /\ inv[i].st = "resolved" /\ inv[i].client = "c1"
       /\ inv[j].ctx = "a1" /\ inv[j].st = "done" /\ inv[j].client = "c1"
       /\ inv[j].calls = 1 /\ inv[j].out.variant = "ok"

====
